---- MODULE Spec2Model ----
(***************************************************************************)
(* Model of src/app.py: the loader load_and_fix_data (encoding detection,  *)
(* header-row promotion, header cleanup, renaming, numeric coercion) and   *)
(* the dashboard script that calls it.                                     *)
(*                                                                         *)
(* Text is modelled as a sequence of tokens; a token stands for a run of   *)
(* characters that the program never splits.  Hangul literals of the       *)
(* source are written in romanised form:                                   *)
(*   "saenghwal"     saenghwal-miljeop-eopjongbyeol (col_map keys 1, 2)    *)
(*   "unyeong"       the prefix of key 3 before the marker                 *)
(*   "jeomposu"      the marker of lines 39 and 54, canonical name 3       *)
(*   "(gae)"         the unit suffix of key 3                              *)
(*   "jongsajasu"    key 4 / canonical name 4,  "(myeong)" its unit        *)
(*   "pyeonggyun" "yeongeopgigan" "(nyeon)"          key 5                 *)
(*   "myeonjeokdang" "maechul" "aek" "(baekmanwon/3.3m2)"   key 6          *)
(*   "myeonjeokdang" "jongsajasu" "(myeong/3.3m2)"          key 7          *)
(*   "daebunryu", "sobunryu"   canonical names 1 and 2                     *)
(*   "jongsaja"      with "myeonjeokdang", canonical name 7                *)
(*   "seoulsi"       the excluded municipality of line 116                 *)
(*   "oesigeop", "hansik", "sogye"   category values of lines 118, 136     *)
(*   "?"             a run of characters produced by a wrong decoding      *)
(* Digits, ",", "-", " ", "\t" and "\n" are one-character tokens.          *)
(***************************************************************************)
EXTENDS Integers, Sequences, FiniteSets, TLC

VARIABLES file, pc, enc_idx, attempts, df, i, header_row_idx, is_fixed,
          exc, ret, majors, selected_major, hide_total, plot_df,
          errors, toast, rendered, visited

vars == <<file, pc, enc_idx, attempts, df, i, header_row_idx, is_fixed,
          exc, ret, majors, selected_major, hide_total, plot_df,
          errors, toast, rendered, visited>>

(***************************************************************************)
(* Bounds of the model.                                                    *)
(***************************************************************************)
MaxRows == 4

(***************************************************************************)
(* Cells.  A cell of a table is a string, a missing value (NaN) or a       *)
(* number.                                                                 *)
(***************************************************************************)
S(s) == [t |-> "str", s |-> s, n |-> 0]

NaN == [t |-> "nan", s |-> <<>>, n |-> 0]

Num(n) == [t |-> "num", s |-> <<>>, n |-> n]

None == -1

NoSelection == [t |-> "none", s |-> <<>>, n |-> 0]

Min(a, b) == IF a < b THEN a ELSE b

(***************************************************************************)
(* Substring containment, the `in' operator of lines 39, 54, 78 and 116.   *)
(***************************************************************************)
Contains(s, sub) ==
    \E k \in 0..(Len(s) - Len(sub)) : SubSeq(s, k + 1, k + Len(sub)) = sub

Digit == [c \in {"0", "1", "2", "3", "4", "5", "6", "7", "8", "9"} |->
            CASE c = "0" -> 0 [] c = "1" -> 1 [] c = "2" -> 2 [] c = "3" -> 3
              [] c = "4" -> 4 [] c = "5" -> 5 [] c = "6" -> 6 [] c = "7" -> 7
              [] c = "8" -> 8 [] c = "9" -> 9]

DigitChar == <<"0", "1", "2", "3", "4", "5", "6", "7", "8", "9">>

RECURSIVE Digits(_)
Digits(n) == IF n < 10 THEN <<DigitChar[n + 1]>>
             ELSE Digits(n \div 10) \o <<DigitChar[(n % 10) + 1]>>

(***************************************************************************)
(* astype(str) on one cell: a string is itself, NaN is 'nan', a number is  *)
(* its decimal numeral.                                                    *)
(***************************************************************************)
AsStr(c) ==
    CASE c.t = "str" -> c.s
      [] c.t = "nan" -> <<"nan">>
      [] c.t = "num" -> IF c.n < 0 THEN <<"-">> \o Digits(0 - c.n) ELSE Digits(c.n)

(***************************************************************************)
(* Program constants of load_and_fix_data.                                 *)
(***************************************************************************)
encodings_Cp949First == <<"cp949", "utf-8", "euc-kr">>

encodings == <<"utf-8", "cp949", "euc-kr">>

SampleRows == 3

ScanRows == 3

marker_long == <<"unyeong", "jeomposu">>

marker == <<"jeomposu">>

col_map == <<
    [k |-> <<"saenghwal", "(1)">>,                        v |-> <<"daebunryu">>],
    [k |-> <<"saenghwal", "(2)">>,                        v |-> <<"sobunryu">>],
    [k |-> <<"unyeong", "jeomposu", "(gae)">>,            v |-> <<"jeomposu">>],
    [k |-> <<"jongsajasu", "(myeong)">>,                  v |-> <<"jongsajasu">>],
    [k |-> <<"pyeonggyun", "yeongeopgigan", "(nyeon)">>,  v |-> <<"yeongeopgigan">>],
    [k |-> <<"myeonjeokdang", "maechul", "aek", "(baekmanwon/3.3m2)">>,
                                                          v |-> <<"myeonjeokdang", "maechul">>],
    [k |-> <<"myeonjeokdang", "jongsajasu", "(myeong/3.3m2)">>,
                                                          v |-> <<"myeonjeokdang", "jongsaja">>] >>

numeric_cols == << <<"jeomposu">>, <<"jongsajasu">>, <<"yeongeopgigan">>,
                   <<"myeonjeokdang", "maechul">>, <<"myeonjeokdang", "jongsaja">> >>

Whitespace == {" ", "\t", "\n"}

(***************************************************************************)
(* Input files.  A file either is absent or decodes, under each candidate  *)
(* encoding, to one of: a decode error, its table, or its table with every *)
(* non-ASCII run of characters turned into other characters.  Tables have  *)
(* one to MaxRows rows of three cells.  A column that holds any text is    *)
(* read with dtype object, so its cells stay strings (or NaN when empty);  *)
(* every table with a marker cell has text in each of its columns.         *)
(***************************************************************************)
TitleRow == <<NaN, S(<<"yeongse">>), NaN>>

HeaderRowA == << S(<<" ", "saenghwal", "(1)">>),
                 S(<<"saenghwal", " ", "(2)">>),
                 S(<<"\t", "unyeong", " ", "jeomposu", "(gae)">>) >>

HeaderRowB == << S(<<"jiyeok", "\t", "myeong", "\n">>),
                 S(<<"saenghwal", "(1)", "saenghwal", "(2)">>),
                 S(<<"jeomposu">>) >>

DataRow1 == << S(<<"oesigeop">>), S(<<"hansik">>), S(<<"1", ",", "2", "3", "4">>) >>

DataRow2 == << S(<<"seoulsi">>), S(<<"sogye">>), S(<<"-", "5">>) >>

RowMenu == {TitleRow, HeaderRowA, HeaderRowB, DataRow1, DataRow2}

Tables == UNION {[1..n -> RowMenu] : n \in 1..MaxRows}

Ascii == {" ", "\t", "\n", "(1)", "(2)", ",", "-", "nan",
          "0", "1", "2", "3", "4", "5", "6", "7", "8", "9"}

GarbleCell(c) ==
    IF c.t = "str"
    THEN S([k \in 1..Len(c.s) |-> IF c.s[k] \in Ascii THEN c.s[k] ELSE "?"])
    ELSE c

Garble(table) ==
    [r \in 1..Len(table) |-> [c \in 1..Len(table[r]) |-> GarbleCell(table[r][c])]]

Fail == [ok |-> FALSE, table |-> <<>>]

Decoded(table) == [ok |-> TRUE, table |-> table]

EncNames == {encodings[k] : k \in 1..Len(encodings)}

Files ==
    { [exists |-> FALSE, decode |-> [e \in EncNames |-> Fail]] }
    \cup
    { [exists |-> TRUE,
       decode |-> [e \in EncNames |->
                     CASE how[e] = "fail" -> Fail
                       [] how[e] = "ok" -> Decoded(t)
                       [] how[e] = "garbled" -> Decoded(Garble(t))]] :
        t \in Tables, how \in [EncNames -> {"fail", "ok", "garbled"}] }

(***************************************************************************)
(* State after construction: the script is about to test the path.         *)
(***************************************************************************)
NoneDf == [none |-> TRUE, columns |-> <<>>, rows |-> <<>>]

NoRet == [returned |-> FALSE, df |-> NoneDf, was_fixed |-> FALSE]

Init ==
    /\ file \in Files
    /\ pc = "start"
    /\ enc_idx = 1
    /\ attempts = <<>>
    /\ df = NoneDf
    /\ i = 0
    /\ header_row_idx = None
    /\ is_fixed = FALSE
    /\ exc = "none"
    /\ ret = NoRet
    /\ majors = <<>>
    /\ selected_major = NoSelection
    /\ hide_total = TRUE
    /\ plot_df = <<>>
    /\ errors = <<>>
    /\ toast = FALSE
    /\ rendered = FALSE
    /\ visited = {"start"}

Goto(l) == pc' = l /\ visited' = visited \cup {l}

Raise(e) == exc' = e /\ Goto("except")

(***************************************************************************)
(* Lines 99-103: the existence test and the call of the loader.            *)
(***************************************************************************)
ExistsCheck ==
    /\ pc = "start"
    /\ IF file.exists
       THEN Goto("try") /\ errors' = errors
       ELSE Goto("done") /\ errors' = Append(errors, "File not found")
    /\ UNCHANGED <<file, enc_idx, attempts, df, i, header_row_idx, is_fixed, exc,
                   ret, majors, selected_major, hide_total, plot_df, toast, rendered>>

(***************************************************************************)
(* Lines 34-44: the encoding loop.                                         *)
(***************************************************************************)
RECURSIVE Concat(_)
Concat(ss) == IF ss = <<>> THEN <<>> ELSE Head(ss) \o Concat(Tail(ss))

Line(label, row) ==
    <<label>> \o Concat([c \in 1..Len(row) |-> <<" ">> \o AsStr(row[c])])

to_string(rows) ==
    Line("", [c \in 1..Len(rows[1]) |-> Num(c - 1)])
    \o Concat([r \in 1..Len(rows) |-> <<"\n">> \o Line(DigitChar[r], rows[r])])

sample_str_WholeTable(table) == to_string(table)

sample_str(table) == to_string(SubSeq(table, 1, Min(SampleRows, Len(table))))

HasMarker(s) == Contains(s, marker_long) \/ Contains(s, marker)

Frame(table) == [none |-> FALSE,
                 columns |-> [c \in 1..Len(table[1]) |-> Num(c - 1)],
                 rows |-> table]

Accepted(d) == d.ok /\ HasMarker(sample_str(d.table))

AfterAttempt_KeepRejected(cur, d) == IF ~d.ok THEN cur ELSE Frame(d.table)

AfterAttempt(cur, d) ==
    IF ~d.ok THEN cur
    ELSE IF HasMarker(sample_str(d.table)) THEN Frame(d.table) ELSE NoneDf

TryEncoding ==
    /\ pc = "try"
    /\ LET enc == encodings[enc_idx]
           d == file.decode[enc]
       IN /\ attempts' = Append(attempts, enc)
          /\ df' = AfterAttempt(df, d)
          /\ IF Accepted(d) THEN Goto("check_none") /\ enc_idx' = enc_idx
             ELSE IF enc_idx < Len(encodings)
                  THEN Goto("try") /\ enc_idx' = enc_idx + 1
                  ELSE Goto("check_none") /\ enc_idx' = enc_idx
    /\ UNCHANGED <<file, i, header_row_idx, is_fixed, exc, ret, majors,
                   selected_major, hide_total, plot_df, errors, toast, rendered>>

(***************************************************************************)
(* Lines 46-51: no table, or the start of the header scan.                 *)
(***************************************************************************)
CheckNone ==
    /\ pc = "check_none"
    /\ IF df.none THEN Raise("ValueError") ELSE Goto("scan") /\ exc' = exc
    /\ i' = 0
    /\ is_fixed' = FALSE
    /\ header_row_idx' = None
    /\ UNCHANGED <<file, enc_idx, attempts, df, ret, majors, selected_major,
                   hide_total, plot_df, errors, toast, rendered>>

(***************************************************************************)
(* Lines 52-56: one iteration of the scan of rows 0, 1, 2.                 *)
(***************************************************************************)
RowHasMarker(row) == \E c \in 1..Len(row) : Contains(AsStr(row[c]), marker)

ScanRow ==
    /\ pc = "scan"
    /\ IF i >= Len(df.rows)
       THEN Raise("IndexError") /\ UNCHANGED <<i, header_row_idx>>
       ELSE IF RowHasMarker(df.rows[i + 1])
            THEN header_row_idx' = i /\ i' = i /\ Goto("fix") /\ exc' = exc
            ELSE /\ header_row_idx' = header_row_idx
                 /\ exc' = exc
                 /\ IF i + 1 < ScanRows
                    THEN i' = i + 1 /\ Goto("scan")
                    ELSE i' = i /\ Goto("fix")
    /\ UNCHANGED <<file, enc_idx, attempts, df, is_fixed, ret, majors,
                   selected_major, hide_total, plot_df, errors, toast, rendered>>

(***************************************************************************)
(* Lines 58-61: promotion of the header row.                               *)
(***************************************************************************)
Promote_KeepHeaderRow(d, idx) ==
    [none |-> FALSE,
     columns |-> d.rows[idx + 1],
     rows |-> SubSeq(d.rows, idx + 1, Len(d.rows))]

Promote(d, idx) ==
    [none |-> FALSE,
     columns |-> d.rows[idx + 1],
     rows |-> SubSeq(d.rows, idx + 2, Len(d.rows))]

FixHeader ==
    /\ pc = "fix"
    /\ IF header_row_idx # None
       THEN df' = Promote(df, header_row_idx) /\ is_fixed' = TRUE
       ELSE df' = df /\ is_fixed' = is_fixed
    /\ Goto("clean")
    /\ UNCHANGED <<file, enc_idx, attempts, i, header_row_idx, exc, ret, majors,
                   selected_major, hide_total, plot_df, errors, toast, rendered>>

(***************************************************************************)
(* Line 63: header cleanup, .str.replace(' ', '').str.strip().             *)
(***************************************************************************)
NotSpace(tok) == tok # " "

RECURSIVE LStrip(_)
LStrip(s) == IF s # <<>> /\ Head(s) \in Whitespace THEN LStrip(Tail(s)) ELSE s

RECURSIVE RStrip(_)
RStrip(s) == IF s # <<>> /\ s[Len(s)] \in Whitespace
             THEN RStrip(SubSeq(s, 1, Len(s) - 1)) ELSE s

CleanHeader_NoStrip(label) == S(SelectSeq(AsStr(label), NotSpace))

CleanHeader(label) == S(RStrip(LStrip(SelectSeq(AsStr(label), NotSpace))))

CleanHeaders ==
    /\ pc = "clean"
    /\ df' = [df EXCEPT !.columns = [c \in 1..Len(df.columns) |-> CleanHeader(df.columns[c])]]
    /\ Goto("rename")
    /\ UNCHANGED <<file, enc_idx, attempts, i, header_row_idx, is_fixed, exc, ret,
                   majors, selected_major, hide_total, plot_df, errors, toast, rendered>>

(***************************************************************************)
(* Lines 75-80: new_cols is written once per matching entry of col_map, in *)
(* the order of the map, so a later entry overwrites an earlier one.       *)
(***************************************************************************)
RECURSIVE RenameFrom(_, _, _)
RenameFrom(col, k, cur) ==
    IF k > Len(col_map) THEN cur
    ELSE RenameFrom(col, k + 1,
                    IF Contains(col.s, col_map[k].k) THEN S(col_map[k].v) ELSE cur)

RenameCol_FirstMatch(col) ==
    IF \E k \in 1..Len(col_map) : Contains(col.s, col_map[k].k)
    THEN S(col_map[CHOOSE k \in 1..Len(col_map) :
                      /\ Contains(col.s, col_map[k].k)
                      /\ \A q \in 1..(k - 1) : ~Contains(col.s, col_map[q].k)].v)
    ELSE col

RenameCol(col) == RenameFrom(col, 1, col)

RenameColumns ==
    /\ pc = "rename"
    /\ df' = [df EXCEPT !.columns = [c \in 1..Len(df.columns) |-> RenameCol(df.columns[c])]]
    /\ Goto("coerce")
    /\ UNCHANGED <<file, enc_idx, attempts, i, header_row_idx, is_fixed, exc, ret,
                   majors, selected_major, hide_total, plot_df, errors, toast, rendered>>

(***************************************************************************)
(* Lines 82-86: numeric coercion.  pd.to_numeric is modelled on integer    *)
(* numerals with an optional sign; every other text, 'nan' included, is    *)
(* NaN under errors='coerce'.  df[col] of a label carried by two columns   *)
(* is a DataFrame, which has no .str accessor (AttributeError).            *)
(***************************************************************************)
NotComma(tok) == tok # ","

IsDigits(s) == s # <<>> /\ \A k \in 1..Len(s) : s[k] \in DOMAIN Digit

RECURSIVE Value(_)
Value(s) == IF s = <<>> THEN 0 ELSE 10 * Value(SubSeq(s, 1, Len(s) - 1)) + Digit[s[Len(s)]]

to_numeric(s) ==
    IF IsDigits(s) THEN Num(Value(s))
    ELSE IF Len(s) >= 2 /\ s[1] = "-" /\ IsDigits(Tail(s)) THEN Num(0 - Value(Tail(s)))
    ELSE IF Len(s) >= 2 /\ s[1] = "+" /\ IsDigits(Tail(s)) THEN Num(Value(Tail(s)))
    ELSE NaN

fillna(c) == IF c.t = "nan" THEN Num(0) ELSE c

CoerceCell_KeepCommas(c) == fillna(to_numeric(AsStr(c)))

CoerceCell(c) == fillna(to_numeric(SelectSeq(AsStr(c), NotComma)))

Positions(columns, name) == {c \in 1..Len(columns) : columns[c] = S(name)}

IsNumericCol_AnyMapped(label) ==
    \E k \in 1..Len(col_map) : label = S(col_map[k].v)

IsNumericCol(label) == \E k \in 1..Len(numeric_cols) : label = S(numeric_cols[k])

CoerceRows(d) ==
    [r \in 1..Len(d.rows) |->
        [c \in 1..Len(d.columns) |->
            IF IsNumericCol(d.columns[c]) THEN CoerceCell(d.rows[r][c]) ELSE d.rows[r][c]]]

CoerceNumeric ==
    /\ pc = "coerce"
    /\ IF \E k \in 1..Len(numeric_cols) : Cardinality(Positions(df.columns, numeric_cols[k])) > 1
       THEN Raise("AttributeError") /\ df' = df
       ELSE df' = [df EXCEPT !.rows = CoerceRows(df)] /\ Goto("return") /\ exc' = exc
    /\ UNCHANGED <<file, enc_idx, attempts, i, header_row_idx, is_fixed, ret,
                   majors, selected_major, hide_total, plot_df, errors, toast, rendered>>

(***************************************************************************)
(* Lines 88 and 103-106: the return, and the toast of the caller.          *)
(***************************************************************************)
LoadReturn ==
    /\ pc = "return"
    /\ ret' = [returned |-> TRUE, df |-> df, was_fixed |-> is_fixed]
    /\ toast' = is_fixed
    /\ Goto("column")
    /\ UNCHANGED <<file, enc_idx, attempts, df, i, header_row_idx, is_fixed, exc,
                   majors, selected_major, hide_total, plot_df, errors, rendered>>

(***************************************************************************)
(* Lines 112-113 and 125-127: the major-category column.  unique() keeps   *)
(* the order of first appearance; two columns of that label give a         *)
(* DataFrame, which has no unique() (AttributeError).                      *)
(***************************************************************************)
daebunryu == <<"daebunryu">>

sobunryu == <<"sobunryu">>

jeomposu == <<"jeomposu">>

Pos(columns, name) == CHOOSE c \in Positions(columns, name) : TRUE

Column(d, name) == [r \in 1..Len(d.rows) |-> d.rows[r][Pos(d.columns, name)]]

RECURSIVE Unique(_)
Unique(s) ==
    IF s = <<>> THEN <<>>
    ELSE LET init == SubSeq(s, 1, Len(s) - 1)
             last == s[Len(s)]
         IN IF \E k \in 1..Len(init) : init[k] = last
            THEN Unique(init) ELSE Append(Unique(init), last)

ColumnCheck ==
    /\ pc = "column"
    /\ IF Positions(ret.df.columns, daebunryu) = {}
       THEN /\ errors' = Append(errors, "Column not found")
            /\ Goto("stopped")
            /\ UNCHANGED <<majors, exc>>
       ELSE IF Cardinality(Positions(ret.df.columns, daebunryu)) > 1
            THEN Raise("AttributeError") /\ UNCHANGED <<majors, errors>>
            ELSE /\ majors' = Unique(Column(ret.df, daebunryu))
                 /\ Goto("majors")
                 /\ UNCHANGED <<errors, exc>>
    /\ UNCHANGED <<file, enc_idx, attempts, df, i, header_row_idx, is_fixed, ret,
                   selected_major, hide_total, plot_df, toast, rendered>>

(***************************************************************************)
(* Lines 116-122: the exclusion of the municipality entries.  The test     *)
(* `in m' on a value that is no string raises TypeError.                   *)
(***************************************************************************)
NotSeoul(m) == ~Contains(m.s, <<"seoulsi">>)

NoMajorsStops_Never(ms) == FALSE

NoMajorsStops(ms) == ms = <<>>

ExcludeSeoul ==
    /\ pc = "majors"
    /\ IF \E k \in 1..Len(majors) : majors[k].t # "str"
       THEN Raise("TypeError") /\ UNCHANGED <<majors, errors>>
       ELSE /\ majors' = SelectSeq(majors, NotSeoul)
            /\ exc' = exc
            /\ IF NoMajorsStops(majors')
               THEN errors' = Append(errors, "No category") /\ Goto("stopped")
               ELSE errors' = errors /\ Goto("select")
    /\ UNCHANGED <<file, enc_idx, attempts, df, i, header_row_idx, is_fixed, ret,
                   selected_major, hide_total, plot_df, toast, rendered>>

(***************************************************************************)
(* Lines 118-130: the two widgets.  The user picks any of the options     *)
(* (default_idx only names the option shown first); a selectbox without   *)
(* options returns None.                                                   *)
(***************************************************************************)
Select ==
    /\ pc = "select"
    /\ IF majors = <<>>
       THEN selected_major' = NoSelection
       ELSE \E k \in 1..Len(majors) : selected_major' = majors[k]
    /\ hide_total' \in BOOLEAN
    /\ Goto("filter")
    /\ UNCHANGED <<file, enc_idx, attempts, df, i, header_row_idx, is_fixed, exc, ret,
                   majors, plot_df, errors, toast, rendered>>

(***************************************************************************)
(* Lines 133-138: the rows of the selected category, without the subtotal  *)
(* rows when asked, sorted by store count, largest first.  sort_values on  *)
(* an absent label raises KeyError.                                        *)
(***************************************************************************)
RECURSIVE SelectRows(_, _, _, _)
SelectRows(rows, c, val, keep) ==
    IF rows = <<>> THEN <<>>
    ELSE IF (Head(rows)[c] = val) = keep
         THEN <<Head(rows)>> \o SelectRows(Tail(rows), c, val, keep)
         ELSE SelectRows(Tail(rows), c, val, keep)

RECURSIVE Insert(_, _, _)
Insert(sorted, row, c) ==
    IF sorted = <<>> THEN <<row>>
    ELSE IF Head(sorted)[c].n >= row[c].n
         THEN <<Head(sorted)>> \o Insert(Tail(sorted), row, c)
         ELSE <<row>> \o sorted

RECURSIVE SortDesc(_, _)
SortDesc(rows, c) ==
    IF rows = <<>> THEN <<>>
    ELSE Insert(SortDesc(SubSeq(rows, 1, Len(rows) - 1), c), rows[Len(rows)], c)

Filter ==
    /\ pc = "filter"
    /\ LET d == ret.df
           of_major == SelectRows(d.rows, Pos(d.columns, daebunryu), selected_major, TRUE)
           kept == IF hide_total /\ Positions(d.columns, sobunryu) # {}
                   THEN SelectRows(of_major, Pos(d.columns, sobunryu), S(<<"sogye">>), FALSE)
                   ELSE of_major
       IN IF Positions(d.columns, jeomposu) = {}
          THEN Raise("KeyError") /\ plot_df' = kept
          ELSE plot_df' = SortDesc(kept, Pos(d.columns, jeomposu)) /\ Goto("render") /\ exc' = exc
    /\ UNCHANGED <<file, enc_idx, attempts, df, i, header_row_idx, is_fixed, ret,
                   majors, selected_major, hide_total, errors, toast, rendered>>

(***************************************************************************)
(* Lines 141-197: the chart.  melt(id_vars=...) on an absent minor-        *)
(* category label raises KeyError.                                         *)
(***************************************************************************)
Render ==
    /\ pc = "render"
    /\ IF Positions(ret.df.columns, sobunryu) = {}
       THEN Raise("KeyError") /\ rendered' = rendered
       ELSE rendered' = TRUE /\ Goto("done") /\ exc' = exc
    /\ UNCHANGED <<file, enc_idx, attempts, df, i, header_row_idx, is_fixed, ret,
                   majors, selected_major, hide_total, plot_df, errors, toast>>

(***************************************************************************)
(* Lines 199-200: every Exception of the try block is shown as an error.   *)
(***************************************************************************)
Except ==
    /\ pc = "except"
    /\ errors' = Append(errors, exc)
    /\ Goto("done")
    /\ UNCHANGED <<file, enc_idx, attempts, df, i, header_row_idx, is_fixed, exc, ret,
                   majors, selected_major, hide_total, plot_df, toast, rendered>>

Next ==
    \/ ExistsCheck
    \/ TryEncoding
    \/ CheckNone
    \/ ScanRow
    \/ FixHeader
    \/ CleanHeaders
    \/ RenameColumns
    \/ CoerceNumeric
    \/ LoadReturn
    \/ ColumnCheck
    \/ ExcludeSeoul
    \/ Select
    \/ Filter
    \/ Render
    \/ Except

Spec == Init /\ [][Next]_vars

(***************************************************************************)
(* Vocabulary of the properties, stated apart from the definitions above.  *)
(***************************************************************************)
CandidateOrder == <<"utf-8", "cp949", "euc-kr">>

StoreCount == <<"jeomposu">>

Fragments == << <<"saenghwal", "(1)">>, <<"saenghwal", "(2)">>,
                <<"unyeong", "jeomposu", "(gae)">>, <<"jongsajasu", "(myeong)">>,
                <<"pyeonggyun", "yeongeopgigan", "(nyeon)">>,
                <<"myeonjeokdang", "maechul", "aek", "(baekmanwon/3.3m2)">>,
                <<"myeonjeokdang", "jongsajasu", "(myeong/3.3m2)">> >>

Canonical == << <<"daebunryu">>, <<"sobunryu">>, <<"jeomposu">>, <<"jongsajasu">>,
                <<"yeongeopgigan">>, <<"myeonjeokdang", "maechul">>,
                <<"myeonjeokdang", "jongsaja">> >>

NumericNames == {S(Canonical[k]) : k \in 3..7}

CellShowsMarker(c) == Contains(AsStr(c), StoreCount)

RowShowsMarker(table, r) ==
    r < Len(table) /\ \E c \in 1..Len(table[r + 1]) : CellShowsMarker(table[r + 1][c])

FirstThreeShowMarker(table) == \E r \in 0..2 : RowShowsMarker(table, r)

Eligible(e) == file.decode[e].ok /\ FirstThreeShowMarker(file.decode[e].table)

EligibleIdx == {k \in 1..3 : Eligible(CandidateOrder[k])}

FirstEligible == IF EligibleIdx = {} THEN 0
                 ELSE CHOOSE k \in EligibleIdx : \A q \in EligibleIdx : k <= q

AcceptedTable == file.decode[attempts[Len(attempts)]].table

FirstMarkerRow(table) ==
    CHOOSE r \in 0..2 : RowShowsMarker(table, r)
                        /\ \A q \in 0..2 : q < r => ~RowShowsMarker(table, q)

LoopLeft == "check_none" \in visited

(***************************************************************************)
(* C1: the candidates are tried in the order utf-8, cp949, euc-kr, at most *)
(* three attempts are made, the loop stops at the first candidate that     *)
(* decodes and shows the marker in its first three rows, and the table     *)
(* that goes on to normalization is the one decoded with that candidate.   *)
(***************************************************************************)
C1_FirstEligibleEncodingWins ==
    /\ Len(attempts) <= 3
    /\ \A k \in 1..Len(attempts) : attempts[k] = CandidateOrder[k]
    /\ LoopLeft =>
          IF FirstEligible = 0
          THEN Len(attempts) = 3 /\ df.none
          ELSE Len(attempts) = FirstEligible
    /\ pc = "scan" /\ i = 0 =>
          /\ FirstEligible # 0
          /\ df.rows = file.decode[CandidateOrder[FirstEligible]].table

C1_Witness ==
    /\ pc = "scan"
    /\ attempts = <<"utf-8", "cp949">>
    /\ file.decode["utf-8"].ok
    /\ Eligible("euc-kr")
    /\ Len(df.rows) = 4

(***************************************************************************)
(* C2: when no candidate both decodes and shows the marker in its first    *)
(* three rows, the loader raises the data-format error (ValueError) and    *)
(* returns no table; a returned table always comes from such a candidate.  *)
(***************************************************************************)
C2_NoCandidateRaises ==
    /\ file.exists /\ FirstEligible = 0 =>
          /\ ~ret.returned
          /\ pc \in {"start", "try", "check_none", "except", "done"}
          /\ pc \in {"except", "done"} => exc = "ValueError"
    /\ ret.returned => FirstEligible # 0

C2_Witness ==
    /\ pc = "done"
    /\ exc = "ValueError"
    /\ errors = <<"ValueError">>
    /\ \A k \in 1..3 : file.decode[CandidateOrder[k]].ok
    /\ ~ret.returned

(***************************************************************************)
(* C3: when a row among rows 0..2 of the accepted table has a cell with    *)
(* the marker, the first such row i is the header, the returned rows are   *)
(* the raw rows after row i in their order, indexed from 0, and the flag   *)
(* is true.  (Cells of numeric columns are the coerced raw cells.)         *)
(***************************************************************************)
C3_FirstMarkerRowPromoted ==
    ret.returned /\ FirstThreeShowMarker(AcceptedTable) =>
        LET raw == AcceptedTable
            idx == FirstMarkerRow(raw)
            out == ret.df
        IN /\ header_row_idx = idx
           /\ ret.was_fixed
           /\ Len(out.rows) = Len(raw) - (idx + 1)
           /\ \A c \in 1..Len(out.columns) :
                 out.columns[c] = RenameCol(CleanHeader(raw[idx + 1][c]))
           /\ \A r \in 1..Len(out.rows) : \A c \in 1..Len(out.columns) :
                 out.rows[r][c] = IF out.columns[c] \in NumericNames
                                  THEN CoerceCell(raw[idx + 1 + r][c])
                                  ELSE raw[idx + 1 + r][c]

C3_Witness ==
    /\ ret.returned
    /\ header_row_idx = 2
    /\ ~RowShowsMarker(AcceptedTable, 0)
    /\ ~RowShowsMarker(AcceptedTable, 1)
    /\ Len(ret.df.rows) = 1
    /\ ret.df.rows[1][1] = AcceptedTable[4][1]

(***************************************************************************)
(* C5 as stated: no header of a returned table contains any whitespace     *)
(* character, interior tab or newline included.                            *)
(***************************************************************************)
C5_NoWhitespaceAtAll ==
    ret.returned =>
        \A c \in 1..Len(ret.df.columns) : \A k \in 1..Len(ret.df.columns[c].s) :
            ret.df.columns[c].s[k] \notin {" ", "\t", "\n"}

(***************************************************************************)
(* C5 amended: no header of a returned table contains a space character,   *)
(* and none begins or ends with a whitespace character.                    *)
(***************************************************************************)
C5_NoSpaceNoOuterWhitespace ==
    ret.returned =>
        \A c \in 1..Len(ret.df.columns) :
            LET h == ret.df.columns[c].s
            IN /\ ret.df.columns[c].t = "str"
               /\ \A k \in 1..Len(h) : h[k] # " "
               /\ h # <<>> => h[1] \notin {" ", "\t", "\n"}
                              /\ h[Len(h)] \notin {" ", "\t", "\n"}

C5_Witness ==
    /\ ret.returned
    /\ AcceptedTable[header_row_idx + 1] = HeaderRowA
    /\ ret.df.columns = <<S(<<"daebunryu">>), S(<<"sobunryu">>), S(<<"jeomposu">>)>>

(***************************************************************************)
(* C6 as stated: in a returned table every cell of a column named by one   *)
(* of the five numeric canonical names is a number, zero or positive.      *)
(***************************************************************************)
C6_NonNegativeNumbers ==
    ret.returned =>
        \A c \in 1..Len(ret.df.columns) : ret.df.columns[c] \in NumericNames =>
            \A r \in 1..Len(ret.df.rows) :
                ret.df.rows[r][c].t = "num" /\ ret.df.rows[r][c].n >= 0

(***************************************************************************)
(* C6 amended: every such cell is a number and none is missing: 1,234      *)
(* gives 1234, a numeral with a minus sign gives its negative value (-5    *)
(* gives -5), and an empty cell or any other text gives 0.                 *)
(***************************************************************************)
C6_NumbersNoneMissing ==
    ret.returned =>
        \A c \in 1..Len(ret.df.columns) : ret.df.columns[c] \in NumericNames =>
            \A r \in 1..Len(ret.df.rows) :
                LET rawcell == AcceptedTable[header_row_idx + 1 + r][c]
                    cell == ret.df.rows[r][c]
                IN /\ cell.t = "num"
                   /\ cell.n = CASE rawcell = S(<<"1", ",", "2", "3", "4">>) -> 1234
                                 [] rawcell = S(<<"-", "5">>) -> 0 - 5
                                 [] OTHER -> 0

C6_Witness ==
    /\ ret.returned
    /\ ret.df.columns[3] = S(<<"jeomposu">>)
    /\ Len(ret.df.rows) = 3
    /\ \E r \in 1..3 : AcceptedTable[header_row_idx + 1 + r][3] = NaN
                       /\ ret.df.rows[r][3] = Num(0)
    /\ \E r \in 1..3 : ret.df.rows[r][3] = Num(1234)
    /\ \E r \in 1..3 : AcceptedTable[header_row_idx + 1 + r][3].t = "str"
                       /\ Contains(AcceptedTable[header_row_idx + 1 + r][3].s, StoreCount)
                       /\ ret.df.rows[r][3] = Num(0)

(***************************************************************************)
(* C7: a chart is rendered only if the file exists, the loader returned a  *)
(* table, the table has the major-category column and some major category  *)
(* is left after the municipality entries are excluded; in each other case *)
(* the run never reaches filtering or rendering and ends with an error     *)
(* shown.                                                                  *)
(***************************************************************************)
MajorColumns == {c \in 1..Len(ret.df.columns) : ret.df.columns[c] = S(Canonical[1])}

MajorsLeft ==
    {m \in {ret.df.rows[r][c] : r \in 1..Len(ret.df.rows), c \in MajorColumns} :
        ~(m.t = "str" /\ Contains(m.s, <<"seoulsi">>))}

Selectable ==
    /\ file.exists
    /\ ret.returned
    /\ MajorColumns # {}
    /\ MajorsLeft # {}

C7_RenderOnlyWhenSelectable ==
    /\ rendered => Selectable
    /\ ~Selectable =>
          /\ visited \cap {"filter", "render"} = {}
          /\ ~rendered
          /\ pc \in {"done", "stopped"} => errors # <<>>

C7_Witness ==
    /\ pc = "done"
    /\ rendered
    /\ errors = <<>>
    /\ Len(plot_df) = 1
    /\ hide_total

(***************************************************************************)
(* C8 as stated: every column that the renaming step did not rename to one *)
(* of the five numeric canonical names keeps the raw text of its cells.    *)
(***************************************************************************)
RenamedToNumeric(c) ==
    LET cleaned == CleanHeader(AcceptedTable[header_row_idx + 1][c])
    IN \E k \in 3..7 : Contains(cleaned.s, Fragments[k])
                       /\ ret.df.columns[c] = S(Canonical[k])

KeepsRawText(c) ==
    \A r \in 1..Len(ret.df.rows) :
        ret.df.rows[r][c] = AcceptedTable[header_row_idx + 1 + r][c]

C8_UnrenamedColumnsKeepRawText ==
    ret.returned /\ header_row_idx # None =>
        \A c \in 1..Len(ret.df.columns) : ~RenamedToNumeric(c) => KeepsRawText(c)

(***************************************************************************)
(* C8 amended: every column whose final header is none of the five numeric *)
(* canonical names keeps the raw text of its cells; a column whose cleaned *)
(* header already is such a name is coerced although it is not renamed.    *)
(***************************************************************************)
C8_NonNumericColumnsKeepRawText ==
    ret.returned /\ header_row_idx # None =>
        \A c \in 1..Len(ret.df.columns) :
            ret.df.columns[c] \notin NumericNames => KeepsRawText(c)

C8_Witness ==
    /\ ret.returned
    /\ ret.df.columns[1] = S(Canonical[1])
    /\ ret.df.columns[2] = S(Canonical[2])
    /\ Len(ret.df.rows) = 2
    /\ ret.df.rows[1][1] = S(<<"oesigeop">>)
    /\ ret.df.rows[2][2] = S(<<"sogye">>)

(***************************************************************************)
(* C9: after the renaming step a cleaned header that contains at least one *)
(* of the seven fragments carries the canonical name of the last matching  *)
(* entry in the order of the map, and a header that contains none is       *)
(* unchanged.                                                              *)
(***************************************************************************)
Matching(h) == {k \in 1..7 : Contains(h.s, Fragments[k])}

LastMatch(h) == CHOOSE k \in Matching(h) : \A q \in Matching(h) : q <= k

C9_LastMatchingEntryWins ==
    pc \in {"coerce", "return"} /\ header_row_idx # None =>
        \A c \in 1..Len(df.columns) :
            LET h == CleanHeader(AcceptedTable[header_row_idx + 1][c])
            IN df.columns[c] = IF Matching(h) = {} THEN h ELSE S(Canonical[LastMatch(h)])

C9_Witness ==
    /\ pc = "coerce"
    /\ AcceptedTable[header_row_idx + 1] = HeaderRowB
    /\ Matching(CleanHeader(HeaderRowB[2])) = {1, 2}
    /\ df.columns = <<S(<<"jiyeok", "\t", "myeong">>), S(<<"sobunryu">>), S(<<"jeomposu">>)>>

(***************************************************************************)
(* C10: the header scan finds a marker row in every accepted table before  *)
(* it reads a row that does not exist, so no IndexError is raised, the     *)
(* scan never ends without a header row, and every return has the flag     *)
(* true.                                                                   *)
(***************************************************************************)
C10_HeaderAlwaysFound ==
    /\ exc # "IndexError"
    /\ pc = "fix" => header_row_idx # None
    /\ ret.returned => ret.was_fixed

C10_Witness ==
    /\ ret.returned
    /\ ret.was_fixed
    /\ Len(AcceptedTable) = 2
    /\ header_row_idx = 1

====
